---- MODULE Spec2Model ----
(***************************************************************************)
(* The contact-form web site of flask-blog-class: src/app.py (the routes   *)
(* "/" and "/contact", the process-wide list `messages`) and src/forms.py  *)
(* (ContactForm and its validators).                                       *)
(*                                                                         *)
(* Strings are sequences of one-character strings, so that len(), strip()  *)
(* and the f-string formatting of the code are computed, not assumed.      *)
(*                                                                         *)
(* Scope: the requests are GET / and GET|POST /contact, a POST being the   *)
(* form a browser submits from the rendered page.  What Flask and          *)
(* Flask-WTF do with any other request (unknown paths and methods, a POST  *)
(* without the form's CSRF token) is framework behaviour outside app.py    *)
(* and forms.py and is not modelled.                                       *)
(***************************************************************************)
EXTENDS Naturals, Sequences, FiniteSets

VARIABLES
    messages,   \* app.py:7   the process-wide list of formatted entries
    flashes,    \* app.py:26  per session, the flashed notices not yet shown
    req,        \* the request being served (NoRequest between requests)
    resp,       \* the response the handler returned for it
    pc,         \* threaded server: where each worker thread is in contact()
    job         \* threaded server: the form each worker thread was sent

vars == <<messages, flashes, req, resp, pc, job>>

----------------------------------------------------------------------------
(* Bounds of the model *)

\* the cap on the number of entries of `messages` (the code has none)
MaxLog == 2
\* names of up to NameMax + Over characters are submitted
Over == 1
\* the number of worker threads of the threaded server
NThreads == 2

(* Program constants *)

\* Length(min=2, max=20)
NameMin == 2
NameMax == 20

----------------------------------------------------------------------------
(* Strings *)

\* the characters str.strip() removes
Whitespace == {" ", "\t", "\n", "\r"}

RECURSIVE Rep(_, _)
Rep(c, n) == IF n = 0 THEN <<>> ELSE <<c>> \o Rep(c, n - 1)

RECURSIVE LStrip(_)
LStrip(s) ==
    IF s = <<>> THEN s
    ELSE IF Head(s) \in Whitespace THEN LStrip(Tail(s)) ELSE s

RECURSIVE RStrip(_)
RStrip(s) ==
    IF s = <<>> THEN s
    ELSE IF s[Len(s)] \in Whitespace THEN RStrip(SubSeq(s, 1, Len(s) - 1)) ELSE s

\* str.strip()
Strip(s) == RStrip(LStrip(s))

Al == <<"A", "l">>
Hi == <<"H", "i">>
AlAtExampleCom ==
    <<"a", "l", "@", "e", "x", "a", "m", "p", "l", "e", ".", "c", "o", "m">>

\* the values a browser can put in the three fields
Names ==
    {Rep("a", n) : n \in {0, NameMin - 1, NameMax} \cup (NameMax + 1 .. NameMax + Over)}
        \cup {Al, Rep(" ", NameMin - 1), Rep(" ", NameMin)}
Emails == {<<>>, <<" ">>, <<"a", "l">>, AlAtExampleCom}
Texts == {<<>>, <<" ", "\n">>, Hi}

Fields == {"name", "email", "message"}

Forms == [name : Names, email : Emails, message : Texts]

\* a request without form data: every field's data is None, rendered as ""
NoData == [name |-> <<>>, email |-> <<>>, message |-> <<>>]

\* two browsers, each with its own session cookie
Sessions == {"s1", "s2"}
Threads == 1 .. NThreads

----------------------------------------------------------------------------
(* src/forms.py: the validators of ContactForm *)

RequiredMsg == "This field is required."
LengthMsg == "Field must be between 2 and 20 characters long."

\* One validator's outcome on a field's data: the message it raises ("" when
\* it passes) and whether it stops the field's chain (StopValidation).
Passed == [msg |-> "", stop |-> FALSE]

DataRequiredNoStrip(data) ==
    IF data # <<>> THEN Passed ELSE [msg |-> RequiredMsg, stop |-> TRUE]

\* DataRequired(): `if field.data and field.data.strip(): return`, else
\* StopValidation
DataRequired(data) ==
    IF data # <<>> /\ Strip(data) # <<>>
    THEN Passed
    ELSE [msg |-> RequiredMsg, stop |-> TRUE]

LengthOffByOne(data) ==
    IF Len(data) >= NameMin /\ Len(data) < NameMax
    THEN Passed
    ELSE [msg |-> LengthMsg, stop |-> FALSE]

LengthNoMax(data) ==
    IF Len(data) >= NameMin
    THEN Passed
    ELSE [msg |-> LengthMsg, stop |-> FALSE]

\* Length(min=2, max=20): ValidationError unless min <= len(data) <= max
Length(data) ==
    IF Len(data) >= NameMin /\ Len(data) <= NameMax
    THEN Passed
    ELSE [msg |-> LengthMsg, stop |-> FALSE]

ValidatorsNoMessage(f) ==
    CASE f = "name" -> <<"DataRequired", "Length">>
      [] f = "email" -> <<"DataRequired">>
      [] f = "message" -> <<>>

\* the validators declared for each field, in the declared order
Validators(f) ==
    CASE f = "name" -> <<"DataRequired", "Length">>
      [] f = "email" -> <<"DataRequired">>
      [] f = "message" -> <<"DataRequired">>

RunValidator(v, data) ==
    CASE v = "DataRequired" -> DataRequired(data)
      [] v = "Length" -> Length(data)

\* Field.validate: run the chain in order; a message is recorded when raised,
\* StopValidation ends the chain, ValidationError does not.
RECURSIVE RunChain(_, _)
RunChain(chain, data) ==
    IF chain = <<>> THEN <<>>
    ELSE LET r == RunValidator(Head(chain), data)
             here == IF r.msg = "" THEN <<>> ELSE <<r.msg>>
         IN  IF r.stop THEN here ELSE here \o RunChain(Tail(chain), data)

FieldErrors(f, form) == RunChain(Validators(f), form[f])

FormErrorsShortCircuit(form) ==
    LET bad == {f \in Fields : FieldErrors(f, form) # <<>>}
        first == IF "name" \in bad THEN {"name"}
                 ELSE IF "email" \in bad THEN {"email"} ELSE bad
    IN  [f \in first |-> FieldErrors(f, form)]

\* form.errors after form.validate(): every field is validated, and the
\* mapping holds the fields that have errors
FormErrors(form) ==
    [f \in {g \in Fields : FieldErrors(g, form) # <<>>} |-> FieldErrors(f, form)]

NoErrors == [f \in {} |-> <<>>]

is_submittedAlways(method) == TRUE

\* FlaskForm.is_submitted(): the request carries a form
is_submitted(method) == method \in {"POST", "PUT", "PATCH", "DELETE"}

\* form.errors once validate_on_submit() has run: validate() is called, and
\* errors are collected, only for a submitted form
SubmittedErrors(method, form) ==
    IF is_submitted(method) THEN FormErrors(form) ELSE NoErrors

\* FlaskForm.validate_on_submit(): is_submitted() and validate()
validate_on_submit(method, form) ==
    is_submitted(method) /\ FormErrors(form) = NoErrors

----------------------------------------------------------------------------
(* src/app.py *)

\* f"{name}: {email} sent: {message}"
FormatEntry(name, email, message) ==
    name \o <<":", " ">> \o email \o <<" ", "s", "e", "n", "t", ":", " ">> \o message

ThanksPrefix ==
    <<"T", "h", "a", "n", "k", "s", " ", "f", "o", "r", " ",
      "m", "e", "s", "s", "a", "g", "e", " ">>

FlashNoticeDefaultCategory(name) ==
    [category |-> "message", text |-> ThanksPrefix \o name]

\* flash(f"Thanks for message {name}", "success")
FlashNotice(name) == [category |-> "success", text |-> ThanksPrefix \o name]

ListAppendOverwrite(log, entry) ==
    IF log = <<>> THEN <<entry>> ELSE [log EXCEPT ![Len(log)] = entry]

ListAppendFront(log, entry) == <<entry>> \o log

\* list.append: one step that mutates the list in place
ListAppend(log, entry) == Append(log, entry)

NoRequest == [method |-> "none", path |-> "none", sess |-> "none", form |-> NoData]

NoResponse ==
    [status |-> 0, template |-> "none", location |-> "none", form |-> NoData,
     errors |-> NoErrors, messages |-> <<>>, flashed |-> <<>>]

Init ==
    /\ messages = <<>>
    /\ flashes = [s \in Sessions |-> <<>>]
    /\ req = NoRequest
    /\ resp = NoResponse
    /\ pc = [t \in Threads |-> "idle"]
    /\ job = [t \in Threads |-> NoData]

\* the notices a rendered page shows to session s: all that are pending
FlashesShown(s) == flashes[s]

\* showing them consumes them
FlashesAfterRender(s) == [flashes EXCEPT ![s] = <<>>]

\* render_template(template, form=form, messages=log)
RenderPage(s, template, form, errors, log) ==
    /\ resp' = [status |-> 200, template |-> template, location |-> "none",
                form |-> form, errors |-> errors, messages |-> log,
                flashed |-> FlashesShown(s)]
    /\ flashes' = FlashesAfterRender(s)

\* redirect(url_for("contact"))
Redirect ==
    [status |-> 302, template |-> "none", location |-> "/contact", form |-> NoData,
     errors |-> NoErrors, messages |-> <<>>, flashed |-> <<>>]

\* GET /
home(s) ==
    /\ req = NoRequest
    /\ req' = [method |-> "GET", path |-> "/", sess |-> s, form |-> NoData]
    /\ RenderPage(s, "home.jinja", NoData, NoErrors, <<>>)
    /\ UNCHANGED <<messages, pc, job>>

\* GET|POST /contact
contact(s, method, form) ==
    /\ req = NoRequest
    /\ req' = [method |-> method, path |-> "/contact", sess |-> s, form |-> form]
    /\ IF validate_on_submit(method, form)
       THEN /\ Len(messages) < MaxLog
            /\ messages' =
                   ListAppend(messages, FormatEntry(form.name, form.email, form.message))
            /\ flashes' = [flashes EXCEPT ![s] = Append(@, FlashNotice(form.name))]
            /\ resp' = Redirect
       ELSE /\ RenderPage(s, "contact.jinja", form, SubmittedErrors(method, form),
                          messages)
            /\ UNCHANGED messages
    /\ UNCHANGED <<pc, job>>

\* the response has been sent; the server waits for the next request
Respond ==
    /\ req # NoRequest
    /\ req' = NoRequest
    /\ resp' = NoResponse
    /\ UNCHANGED <<messages, flashes, pc, job>>

Next ==
    \/ \E s \in Sessions : home(s)
    \/ \E s \in Sessions : contact(s, "GET", NoData)
    \/ \E s \in Sessions, form \in Forms : contact(s, "POST", form)
    \/ Respond

\* requests served one at a time
Spec == Init /\ [][Next]_vars

----------------------------------------------------------------------------
(* contact() run by the worker threads of a threaded server: each thread   *)
(* serves one POST /contact; the steps are the statements of contact().    *)

\* the submissions sent concurrently
ConcForms == [name : {Al, Rep("a", NameMax), <<>>}, email : {AlAtExampleCom}, message : {Hi}]

\* app.py:17  form = ContactForm(), filled from the request
Accept(t, form) ==
    /\ pc[t] = "idle"
    /\ pc' = [pc EXCEPT ![t] = "validate"]
    /\ job' = [job EXCEPT ![t] = form]
    /\ UNCHANGED <<messages, flashes, req, resp>>

\* app.py:19  if form.validate_on_submit():
Validate(t) ==
    /\ pc[t] = "validate"
    /\ pc' = [pc EXCEPT ![t] =
                 IF validate_on_submit("POST", job[t]) THEN "append" ELSE "render"]
    /\ UNCHANGED <<messages, flashes, req, resp, job>>

\* app.py:20-24  messages.append(f"...")
AppendEntry(t) ==
    /\ pc[t] = "append"
    /\ messages' =
           ListAppend(messages, FormatEntry(job[t].name, job[t].email, job[t].message))
    /\ pc' = [pc EXCEPT ![t] = "flash"]
    /\ UNCHANGED <<flashes, req, resp, job>>

\* app.py:26-27  flash(...) into the request's own session; return redirect(...)
FlashRedirect(t) ==
    /\ pc[t] = "flash"
    /\ pc' = [pc EXCEPT ![t] = "redirected"]
    /\ UNCHANGED <<messages, flashes, req, resp, job>>

\* app.py:29  return render_template(...)
Render(t) ==
    /\ pc[t] = "render"
    /\ pc' = [pc EXCEPT ![t] = "rendered"]
    /\ UNCHANGED <<messages, flashes, req, resp, job>>

ConcNext ==
    \/ \E t \in Threads, form \in ConcForms : Accept(t, form)
    \/ \E t \in Threads : Validate(t)
    \/ \E t \in Threads : AppendEntry(t)
    \/ \E t \in Threads : FlashRedirect(t)
    \/ \E t \in Threads : Render(t)

ConcSpec == Init /\ [][ConcNext]_vars

----------------------------------------------------------------------------
(* Vocabulary of the properties, stated without the validators above *)

\* s has a character that is not whitespace
NonBlank(s) == \E i \in DOMAIN s : s[i] \notin Whitespace

\* a syntactically valid address: one "@", something before it, and after it
\* a domain with an inner ".", no whitespace anywhere
SyntacticallyValidEmail(e) ==
    /\ Cardinality({i \in DOMAIN e : e[i] = "@"}) = 1
    /\ \A i \in DOMAIN e : e[i] \notin Whitespace
    /\ \E i \in DOMAIN e :
          /\ e[i] = "@"
          /\ i > 1
          /\ \E j \in (i + 2) .. (Len(e) - 1) : e[j] = "."

\* the name's length is within the declared limits
NameLengthOk(form) == Len(form.name) >= 2 /\ Len(form.name) <= 20

\* the fields whose value breaks a rule forms.py declares for them
RuleBreakers(form) ==
    {f \in Fields : ~NonBlank(form[f])}
        \cup (IF NameLengthOk(form) THEN {} ELSE {"name"})

\* the log entry "{name}: {email} sent: {message}"
EntryOf(form) ==
    form.name \o <<":", " ">> \o form.email \o <<" ">>
        \o <<"s", "e", "n", "t", ":", " ">> \o form.message

\* "Al: al@example.com sent: Hi"
AlEntry ==
    <<"A", "l", ":", " ", "a", "l", "@", "e", "x", "a", "m", "p", "l", "e", ".",
      "c", "o", "m", " ", "s", "e", "n", "t", ":", " ", "H", "i">>

AlForm == [name |-> Al, email |-> AlAtExampleCom, message |-> Hi]

\* the elements of a sequence
Elems(q) == {q[i] : i \in DOMAIN q}

\* the state shows the exchange of a request of this method and path
Served(method, path) == req.method = method /\ req.path = path

\* this step is the handling of a request of this method and path
Serving(method, path) ==
    req = NoRequest /\ req'.method = method /\ req'.path = path

----------------------------------------------------------------------------
(* C1 *)

\* C1 as stated: a POST /contact with a name of 2 to 20 characters, a valid
\* email and a non-empty message appends exactly its entry at the end of
\* MessageLog and is answered by a redirect to /contact.
C1_AsStated ==
    [][(/\ Serving("POST", "/contact")
        /\ NameLengthOk(req'.form)
        /\ SyntacticallyValidEmail(req'.form.email)
        /\ req'.form.message # <<>>)
       => (/\ messages' = messages \o <<EntryOf(req'.form)>>
           /\ resp'.status = 302
           /\ resp'.location = "/contact")]_vars

\* C1 amended: a POST /contact with a name of 2 to 20 characters that is not
\* only whitespace, a valid email and a message that is not only whitespace
\* appends exactly its entry "{name}: {email} sent: {message}" at the end of
\* MessageLog and is answered by a redirect to /contact.
C1_ValidPostAppendsAndRedirects ==
    [][(/\ Serving("POST", "/contact")
        /\ NameLengthOk(req'.form) /\ NonBlank(req'.form.name)
        /\ SyntacticallyValidEmail(req'.form.email)
        /\ NonBlank(req'.form.message))
       => (/\ messages' = messages \o <<EntryOf(req'.form)>>
           /\ resp'.status = 302
           /\ resp'.location = "/contact")]_vars

\* the spec's example has been posted: its entry is the last of the log
C1_Witness ==
    /\ Served("POST", "/contact")
    /\ req.form = AlForm
    /\ resp.status = 302
    /\ Len(messages) = 2
    /\ messages[2] = AlEntry
    /\ messages[1] # AlEntry

----------------------------------------------------------------------------
(* C2 *)

----------------------------------------------------------------------------
(* C3 *)

\* C3 as stated: every POST whose name has a length outside [2,20] gets the
\* length error on `name`.
C3_AsStated ==
    (Served("POST", "/contact") /\ ~NameLengthOk(req.form))
        => /\ resp.status = 200
           /\ "name" \in DOMAIN resp.errors
           /\ LengthMsg \in Elems(resp.errors["name"])

\* C3 amended: every POST whose name has a length outside [2,20] fails
\* validation with an error on `name`; the error is the length error when
\* the name has a non-whitespace character, and the required-field error
\* alone when the name is empty or only whitespace.
C3_NameLengthRejected ==
    (Served("POST", "/contact") /\ ~NameLengthOk(req.form))
        => /\ resp.status = 200
           /\ "name" \in DOMAIN resp.errors
           /\ resp.errors["name"] =
                 IF NonBlank(req.form.name) THEN <<LengthMsg>> ELSE <<RequiredMsg>>

\* a name of 21 characters, everything else valid, has been rejected
C3_Witness ==
    /\ Served("POST", "/contact")
    /\ Len(req.form.name) = 21
    /\ req.form.email = AlAtExampleCom
    /\ req.form.message = Hi
    /\ resp.status = 200
    /\ DOMAIN resp.errors = {"name"}

----------------------------------------------------------------------------
(* C4 *)

\* C4: a POST whose email is non-empty and not a syntactically valid address,
\* with a valid name and message, fails validation with an error on `email`:
\* no entry is appended and no redirect is issued.
C4_InvalidEmailRejected ==
    [][(/\ Serving("POST", "/contact")
        /\ req'.form.email # <<>>
        /\ ~SyntacticallyValidEmail(req'.form.email)
        /\ NameLengthOk(req'.form) /\ NonBlank(req'.form.name)
        /\ NonBlank(req'.form.message))
       => (/\ "email" \in DOMAIN resp'.errors
           /\ messages' = messages
           /\ resp'.status # 302)]_vars

----------------------------------------------------------------------------
(* C5 *)

\* C5: every POST with an empty message fails validation with the
\* required-field error on `message`, whatever the name and the email are.
C5_EmptyMessageRequired ==
    (Served("POST", "/contact") /\ req.form.message = <<>>)
        => /\ resp.status = 200
           /\ "message" \in DOMAIN resp.errors
           /\ RequiredMsg \in Elems(resp.errors["message"])

\* an empty message with a valid name and email: the only error is on message
C5_Witness ==
    /\ Served("POST", "/contact")
    /\ req.form = [name |-> Al, email |-> AlAtExampleCom, message |-> <<>>]
    /\ resp.status = 200
    /\ DOMAIN resp.errors = {"message"}

----------------------------------------------------------------------------
(* C6 *)

\* C6: the handling of a POST /contact that fails validation leaves
\* MessageLog unchanged, flashes no notice in any session, issues no
\* redirect, and answers 200 with the contact page, the field errors and
\* the current MessageLog.
C6_RejectedPostRerenders ==
    [][(Serving("POST", "/contact") /\ RuleBreakers(req'.form) # {})
       => (/\ messages' = messages
           /\ \A s \in Sessions : Len(flashes'[s]) <= Len(flashes[s])
           /\ resp'.status = 200
           /\ resp'.location = "none"
           /\ resp'.template = "contact.jinja"
           /\ resp'.errors # NoErrors
           /\ resp'.form = req'.form
           /\ resp'.messages = messages)]_vars

\* a rejected POST re-rendered with a log that is not empty
C6_Witness ==
    /\ Served("POST", "/contact")
    /\ RuleBreakers(req.form) = {"name", "email"}
    /\ resp.status = 200
    /\ resp.messages = messages
    /\ Len(messages) = 1

----------------------------------------------------------------------------
(* C7 *)

\* C7: a GET never validates and never changes MessageLog: GET / answers 200
\* with the home page, GET /contact answers 200 with the contact page, an
\* empty form without field errors and the current MessageLog, whatever
\* came before.
C7_GetHasNoEffect ==
    [][(req = NoRequest /\ req'.method = "GET")
       => (/\ messages' = messages
           /\ resp'.status = 200
           /\ resp'.errors = NoErrors
           /\ resp'.form = NoData
           /\ req'.path = "/" => resp'.template = "home.jinja"
           /\ req'.path = "/contact"
                 => resp'.template = "contact.jinja" /\ resp'.messages = messages)]_vars

\* GET /contact after two submissions were accepted
C7_Witness ==
    /\ Served("GET", "/contact")
    /\ resp.status = 200
    /\ resp.errors = NoErrors
    /\ Len(resp.messages) = 2

----------------------------------------------------------------------------
(* C8 *)

\* the notices pending in all sessions together
RECURSIVE PendingCount(_)
PendingCount(S) ==
    IF S = {} THEN 0
    ELSE LET s == CHOOSE x \in S : TRUE
         IN  Len(flashes[s]) + PendingCount(S \ {s})

----------------------------------------------------------------------------
(* C9 *)

----------------------------------------------------------------------------
(* C10 *)

\* the threads whose append has happened
Appended == {t \in Threads : pc[t] \in {"flash", "redirected"}}

\* C10: with POST /contact handled by concurrent threads, in every
\* interleaving MessageLog holds each entry as many times as threads have
\* appended it, and once every thread has answered, the threads that
\* appended are exactly those whose submission was valid: one entry per
\* valid submission, none lost, duplicated or corrupted.
C10_ConcurrentAppendsAllKept ==
    /\ Len(messages) = Cardinality(Appended)
    /\ \A e \in Elems(messages) \cup {EntryOf(job[t]) : t \in Appended} :
          Cardinality({i \in DOMAIN messages : messages[i] = e})
              = Cardinality({t \in Appended : EntryOf(job[t]) = e})
    /\ (\A t \in Threads : pc[t] \in {"redirected", "rendered"})
          => Appended = {t \in Threads : RuleBreakers(job[t]) = {}}

\* every thread has answered; two of them appended, the thread with the
\* higher number first
C10_Witness ==
    /\ \A t \in Threads : pc[t] \in {"redirected", "rendered"}
    /\ Len(messages) >= 2
    /\ \E t, u \in Threads :
          /\ t < u
          /\ messages[1] = EntryOf(job[u])
          /\ messages[2] = EntryOf(job[t])
          /\ job[t] # job[u]

====
